---- MODULE Spec2Model ----
(***************************************************************************)
(* Model of input_amr (src/foo_amr/foo_input_amr.cpp): the AMR-NB input    *)
(* component: header probe, frame count scan, seek scan and the per-frame  *)
(* decode step, over a byte source with a read position.                   *)
(*                                                                         *)
(* A byte is an integer 0..255.  A byte offset p of the source is element  *)
(* p + 1 of the sequence `stream'.                                         *)
(***************************************************************************)
EXTENDS Integers, Sequences, FiniteSets

VARIABLES
    stream,     \* content of the file behind m_file
    pos,        \* read position of m_file
    m_file,     \* input_amr::m_file: "null" or "set"
    phase,      \* "new", "opened", "initialized", "failed", "closed", "probe"
    m_frames,   \* input_amr::m_frames
    m_frame,    \* input_amr::m_frame
    m_buffer,   \* input_amr::m_buffer, 32 bytes
    m_state,    \* input_amr::m_state: id of the decoder handle, 0 = never set
    live,       \* decoder handles created and not released
    head,       \* the static buffer of is_amr
    info,       \* what get_info stored in p_info
    sought,     \* decode_seek was called since the last decode_initialize
    op          \* the last call: its name, inputs, result and the reads it made

vars == <<stream, pos, m_file, phase, m_frames, m_frame, m_buffer, m_state, live,
          head, info, sought, op>>

(***************************************************************************)
(* Bounds of the model.                                                    *)
(***************************************************************************)
MaxFrames == 2      \* frames laid down after the header
MaxCut == 1         \* bytes cut off the end of the stream
MaxTarget == 3      \* largest target frame of a seek
MaxInits == 2       \* calls of decode_initialize in one session
MaxFaultAt == 2     \* file calls completed before the one that raises
MaxFaultFrames == 1 \* frames of the streams of the sessions with raising calls
MaxScanLen == 3     \* bytes after the header of the streams of the scans

(***************************************************************************)
(* Constants of the program.                                               *)
(***************************************************************************)
amr_bits_per_sample == 8
amr_channels == 1
amr_sample_rate == 8000
amr_frame_sample_length == 20
amr_audio_frame_size == amr_frame_sample_length * amr_bits_per_sample

m_block_size == <<12, 13, 15, 17, 19, 20, 26, 31, 5, 0, 0, 0, 0, 0, 0, 0>>
\* "#!AMR\x0a" with the terminating NUL of the string literal
m_magic == <<35, 33, 65, 77, 82, 10, 0>>
m_start == 7
BufferSize == 32        \* unsigned char m_buffer[32]
Indeterminate == -1     \* a byte of m_buffer that was never written
HeadSize == 5           \* static char head[5]

Min(a, b) == IF a < b THEN a ELSE b

(***************************************************************************)
(* The byte source (foobar2000 file): read returns the number of bytes     *)
(* delivered, short at the end of the file; a seek past the end of the     *)
(* file raises exception_io_seek_out_of_range.                             *)
(***************************************************************************)
file_read(s, p, n) == IF p >= Len(s) THEN 0 ELSE Min(n, Len(s) - p)
file_seek_ok(s, p) == p >= 0 /\ p <= Len(s)

\* the value of a byte held in a (signed) char
to_char(b) == IF b >= 128 THEN b - 256 ELSE b
\* (id >> 3) & 0x000F on an int promoted from char or unsigned char
mode_index(id) == (id \div 8) % 16
\* m_block_size[(id >> 3) & 0x000F]
block_size(id) == m_block_size[mode_index(id) + 1]

\* memcmp(a, b, n): 0 when the first n bytes agree, else the sign of the
\* first difference
RECURSIVE memcmp_from(_, _, _, _)
memcmp_from(a, b, i, n) ==
    IF i > n THEN 0
    ELSE IF a[i] < b[i] THEN -1
    ELSE IF a[i] > b[i] THEN 1
    ELSE memcmp_from(a, b, i + 1, n)
memcmp(a, b, n) == memcmp_from(a, b, 1, n)

(***************************************************************************)
(* The record of a call.                                                   *)
(***************************************************************************)
NoOp == [name |-> "none", ret |-> FALSE, err |-> "none", pos_before |-> 0,
         frame_before |-> 0, target |-> 0, reads |-> <<>>, frame |-> <<>>,
         reason |-> "none", short |-> FALSE, decoder_calls |-> 0, chunks |-> 0,
         fault_at |-> -1]

(***************************************************************************)
(* What the byte source raises during a call: `at' calls of the file       *)
(* (read, seek, seek_ex, reopen) complete, the next one raises `err':      *)
(* exception_aborted when it sees the abort callback set, exception_io     *)
(* when the device fails.  at = -1: no call raises.                        *)
(***************************************************************************)
NoFault == [at |-> -1, err |-> "none"]
Raises(f) == f.at = 0
Tick(f) == [f EXCEPT !.at = IF @ > 0 THEN @ - 1 ELSE @]

\* is_amr without the seek back to the beginning
is_amr_noseek(s, p, h) ==
    LET read == file_read(s, p, HeadSize)
        h2 == [i \in 1..HeadSize |-> IF i <= read THEN s[p + i] ELSE h[i]]
    IN  [ret |-> IF read # 5 \/ memcmp(h2, m_magic, 5) # 0 THEN FALSE ELSE TRUE,
         pos |-> p + read,
         head |-> h2]

(***************************************************************************)
(* input_amr::is_amr.  s is the file, p its read position, h the static    *)
(* buffer head.  Reads 5 bytes from p, seeks to 0, compares.               *)
(***************************************************************************)
is_amr(s, p, h) ==
    LET read == file_read(s, p, HeadSize)
        h2 == [i \in 1..HeadSize |-> IF i <= read THEN s[p + i] ELSE h[i]]
    IN  [ret |-> IF read # 5 \/ memcmp(h2, m_magic, 5) # 0 THEN FALSE ELSE TRUE,
         pos |-> 0,
         head |-> h2]

\* the count loop taking a mode byte of mode 9..15 for the end of the stream
RECURSIVE decode_length_loop_stop(_, _, _, _, _)
decode_length_loop_stop(s, p, frames, rd, f) ==
    IF Raises(f)
    THEN [err |-> f.err, frames |-> frames, pos |-> p, reads |-> rd, fault |-> f]
    ELSE IF file_read(s, p, 1) = 0
    THEN [err |-> "none", frames |-> frames, pos |-> p, reads |-> rd,
          fault |-> Tick(f)]
    ELSE LET id == to_char(s[p + 1])
             size == block_size(id)
             f1 == Tick(f)
         IN  IF mode_index(id) >= 9
             THEN [err |-> "none", frames |-> frames, pos |-> p + 1,
                   reads |-> Append(rd, p), fault |-> f1]
             ELSE IF Raises(f1)
             THEN [err |-> f1.err, frames |-> frames, pos |-> p + 1,
                   reads |-> Append(rd, p), fault |-> f1]
             ELSE IF ~file_seek_ok(s, p + 1 + size)
             THEN [err |-> "seek_out_of_range", frames |-> frames,
                   pos |-> p + 1, reads |-> Append(rd, p), fault |-> f1]
             ELSE decode_length_loop_stop(s, p + 1 + size,
                                          frames + 1, Append(rd, p), Tick(f1))

(***************************************************************************)
(* input_amr::decode_length.  The loop from read position p with `frames'  *)
(* frames counted so far; rd collects the offsets of the mode bytes read;  *)
(* f is what the file raises.                                              *)
(***************************************************************************)
RECURSIVE decode_length_loop(_, _, _, _, _)
decode_length_loop(s, p, frames, rd, f) ==
    IF Raises(f)
    THEN [err |-> f.err, frames |-> frames, pos |-> p, reads |-> rd, fault |-> f]
    ELSE IF file_read(s, p, 1) = 0
    THEN [err |-> "none", frames |-> frames, pos |-> p, reads |-> rd,
          fault |-> Tick(f)]
    ELSE LET id == to_char(s[p + 1])
             size == block_size(id)
             f1 == Tick(f)
         IN  IF Raises(f1)
             THEN [err |-> f1.err, frames |-> frames, pos |-> p + 1,
                   reads |-> Append(rd, p), fault |-> f1]
             ELSE IF ~file_seek_ok(s, p + 1 + size)
             THEN [err |-> "seek_out_of_range", frames |-> frames,
                   pos |-> p + 1, reads |-> Append(rd, p), fault |-> f1]
             ELSE decode_length_loop(s, p + 1 + size,
                                     frames + 1, Append(rd, p), Tick(f1))

\* decode_length without the seek to the beginning after the loop
decode_length_noseek(s, p, f) ==
    IF Raises(f)
    THEN [err |-> f.err, frames |-> 0, pos |-> p, reads |-> <<>>, fault |-> f]
    ELSE IF ~file_seek_ok(s, m_start)
    THEN [err |-> "seek_out_of_range", frames |-> 0, pos |-> p, reads |-> <<>>,
          fault |-> f]
    ELSE decode_length_loop(s, m_start, 0, <<>>, Tick(f))

decode_length(s, p, f) ==
    IF Raises(f)
    THEN [err |-> f.err, frames |-> 0, pos |-> p, reads |-> <<>>, fault |-> f]
    ELSE IF ~file_seek_ok(s, m_start)
    THEN [err |-> "seek_out_of_range", frames |-> 0, pos |-> p, reads |-> <<>>,
          fault |-> f]
    ELSE LET r == decode_length_loop(s, m_start, 0, <<>>, Tick(f))
         IN  IF r.err # "none" THEN r
             ELSE IF Raises(r.fault) THEN [r EXCEPT !.err = r.fault.err]
             ELSE [r EXCEPT !.pos = 0]

\* the seek loop testing m_frame <= target
RECURSIVE decode_seek_loop_le(_, _, _, _, _, _)
decode_seek_loop_le(s, p, frame, target, rd, f) ==
    IF Raises(f)
    THEN [err |-> f.err, frame |-> frame, pos |-> p, reads |-> rd]
    ELSE IF file_read(s, p, 1) = 0
    THEN [err |-> "none", frame |-> frame, pos |-> p, reads |-> rd]
    ELSE IF ~(frame <= target)
    THEN [err |-> "none", frame |-> frame, pos |-> p + 1, reads |-> Append(rd, p)]
    ELSE LET id == to_char(s[p + 1])
             size == block_size(id)
             f1 == Tick(f)
         IN  IF Raises(f1)
             THEN [err |-> f1.err, frame |-> frame,
                   pos |-> p + 1, reads |-> Append(rd, p)]
             ELSE IF ~file_seek_ok(s, p + 1 + size)
             THEN [err |-> "seek_out_of_range", frame |-> frame,
                   pos |-> p + 1, reads |-> Append(rd, p)]
             ELSE decode_seek_loop_le(s, p + 1 + size,
                                      frame + 1, target, Append(rd, p), Tick(f1))

(***************************************************************************)
(* The scan loop of input_amr::decode_seek: the mode byte is read before   *)
(* m_frame < target is tested.                                             *)
(***************************************************************************)
RECURSIVE decode_seek_loop(_, _, _, _, _, _)
decode_seek_loop(s, p, frame, target, rd, f) ==
    IF Raises(f)
    THEN [err |-> f.err, frame |-> frame, pos |-> p, reads |-> rd]
    ELSE IF file_read(s, p, 1) = 0
    THEN [err |-> "none", frame |-> frame, pos |-> p, reads |-> rd]
    ELSE IF ~(frame < target)
    THEN [err |-> "none", frame |-> frame, pos |-> p + 1, reads |-> Append(rd, p)]
    ELSE LET id == to_char(s[p + 1])
             size == block_size(id)
             f1 == Tick(f)
         IN  IF Raises(f1)
             THEN [err |-> f1.err, frame |-> frame,
                   pos |-> p + 1, reads |-> Append(rd, p)]
             ELSE IF ~file_seek_ok(s, p + 1 + size)
             THEN [err |-> "seek_out_of_range", frame |-> frame,
                   pos |-> p + 1, reads |-> Append(rd, p)]
             ELSE decode_seek_loop(s, p + 1 + size,
                                   frame + 1, target, Append(rd, p), Tick(f1))

\* audio_math::time_to_samples for a time given in milliseconds
time_to_samples(ms, rate) == (ms * rate) \div 1000

\* t_filesize target = time_to_samples(p_seconds, amr_sample_rate) / amr_audio_frame_size
seek_target(ms) == time_to_samples(ms, amr_sample_rate) \div amr_audio_frame_size

\* decode_seek setting m_frame to the target without the scan
decode_seek_scan_noclamp(s, p, fr, target, f) ==
    IF Raises(f)
    THEN [err |-> f.err, frame |-> fr, pos |-> p, reads |-> <<>>]
    ELSE IF ~file_seek_ok(s, m_start)
    THEN [err |-> "seek_out_of_range", frame |-> fr, pos |-> p, reads |-> <<>>]
    ELSE [decode_seek_loop(s, m_start, 0, target, <<>>, Tick(f))
            EXCEPT !.frame = target]

\* decode_seek from the seek to m_start on; fr is m_frame before the call
decode_seek_scan(s, p, fr, target, f) ==
    IF Raises(f)
    THEN [err |-> f.err, frame |-> fr, pos |-> p, reads |-> <<>>]
    ELSE IF ~file_seek_ok(s, m_start)
    THEN [err |-> "seek_out_of_range", frame |-> fr, pos |-> p, reads |-> <<>>]
    ELSE decode_seek_loop(s, m_start, 0, target, <<>>, Tick(f))

\* if(m_frame>=m_frames) tested with >
exhausted_gt(frame, frames) == frame > frames

\* if(m_frame>=m_frames) return 0;
exhausted(frame, frames) == frame >= frames

\* the reads of decode_run with the second read asking for one byte more
\* than the table gives
decode_run_read_plus(s, p, buf, g, f) ==
    LET n1 == file_read(s, p, 1)
        b1 == [buf EXCEPT ![1] = IF n1 = 1 THEN s[p + 1] ELSE @]
        p1 == p + n1
        read_size == block_size(IF b1[1] = Indeterminate THEN g ELSE b1[1])
        n2 == file_read(s, p1, read_size + 1)
        b2 == [i \in 1..BufferSize |->
                 IF i >= 2 /\ i <= 1 + n2 THEN s[p1 + i - 1] ELSE b1[i]]
    IN  IF Raises(f)
        THEN [err |-> f.err, pos |-> p, buf |-> buf, read_size |-> 0,
              reads |-> <<>>, short |-> FALSE]
        ELSE IF Raises(Tick(f))
        THEN [err |-> Tick(f).err, pos |-> p1, buf |-> b1, read_size |-> read_size,
              reads |-> IF n1 = 1 THEN <<p>> ELSE <<>>, short |-> n1 < 1]
        ELSE [err |-> "none", pos |-> p1 + n2, buf |-> b2, read_size |-> read_size,
              reads |-> IF n1 = 1 THEN <<p>> ELSE <<>>,
              short |-> (n1 < 1 \/ n2 < read_size)]

(***************************************************************************)
(* The two reads of input_amr::decode_run into m_buffer.  A short read     *)
(* leaves the rest of the buffer as it was; the counts are not looked at.  *)
(* g is the value an unwritten m_buffer[0] is read as, f what the file     *)
(* raises.                                                                 *)
(***************************************************************************)
decode_run_read(s, p, buf, g, f) ==
    LET n1 == file_read(s, p, 1)
        b1 == [buf EXCEPT ![1] = IF n1 = 1 THEN s[p + 1] ELSE @]
        p1 == p + n1
        \* a byte never written reads as some value g
        read_size == block_size(IF b1[1] = Indeterminate THEN g ELSE b1[1])
        n2 == file_read(s, p1, read_size)
        b2 == [i \in 1..BufferSize |->
                 IF i >= 2 /\ i <= 1 + n2 THEN s[p1 + i - 1] ELSE b1[i]]
    IN  IF Raises(f)
        THEN [err |-> f.err, pos |-> p, buf |-> buf, read_size |-> 0,
              reads |-> <<>>, short |-> FALSE]
        ELSE IF Raises(Tick(f))
        THEN [err |-> Tick(f).err, pos |-> p1, buf |-> b1, read_size |-> read_size,
              reads |-> IF n1 = 1 THEN <<p>> ELSE <<>>, short |-> n1 < 1]
        ELSE [err |-> "none", pos |-> p1 + n2, buf |-> b2, read_size |-> read_size,
              reads |-> IF n1 = 1 THEN <<p>> ELSE <<>>,
              short |-> (n1 < 1 \/ n2 < read_size)]

\* the length computed without the conversion to double
info_length_int(frames) ==
    [num |-> (frames * amr_audio_frame_size) \div amr_sample_rate, den |-> 1]

\* p_info.set_length((double)m_frames*amr_audio_frame_size/amr_sample_rate):
\* the length in seconds as the exact fraction num / den
info_length(frames) == [num |-> frames * amr_audio_frame_size, den |-> amr_sample_rate]

(***************************************************************************)
(* The streams the sessions are opened on: a header, possibly one more     *)
(* byte, a sequence of frames (mode byte + payload of the table length),   *)
(* possibly cut short at the end.                                          *)
(***************************************************************************)
Magic == SubSeq(m_magic, 1, 6)
Headers == { Magic, <<35, 33, 65, 77, 88, 10>> }
Pads == { <<>>, <<72>> }
Modes == {8, 9}             \* the modes of the generated frames: one valid, one reserved
Fills == {0, 200}
Garbage == {0, 72}

FrameOf(m, fill) == <<m * 8>> \o [i \in 1..m_block_size[m + 1] |-> fill]

RECURSIVE FramesOf(_, _)
FramesOf(ms, fill) ==
    IF ms = <<>> THEN <<>>
    ELSE FrameOf(Head(ms), fill) \o FramesOf(Tail(ms), fill)

ModeLists == UNION { [1..n -> Modes] : n \in 0..MaxFrames }

CutOff(s, c) == SubSeq(s, 1, Len(s) - Min(c, Len(s)))

\* the stream of the round-trip scenario: frames of modes 0, 7 and 8
RoundTrip == Magic \o FramesOf(<<0, 7, 8>>, 0)

Streams == { CutOff(h \o pad \o FramesOf(ms, fill), c) :
               h \in Headers, pad \in Pads, ms \in ModeLists,
               fill \in Fills, c \in 0..MaxCut }
           \cup { RoundTrip, Magic \o <<72>> \o FramesOf(<<0, 7, 8>>, 0) }

\* the sources the probe is tried on
ProbeStreams == { SubSeq(h \o t, 1, Min(n, Len(h \o t))) :
                    h \in Headers \cup { <<35, 33, 65, 77, 82, 0>>,
                                         <<0, 35, 33, 65, 77, 82, 10>> },
                    t \in { <<>>, <<72>>, <<64, 0, 0, 0, 0, 0>> },
                    n \in 0..13 }

SeekTimes == { 20 * t : t \in 0..MaxTarget } \cup {30}
Reasons == {"input_open_info_read", "input_open_decode", "input_open_info_write"}

\* the read position of the file the host hands to open
StartPositions(s) == {0, Len(s)}

(***************************************************************************)
(* A session: the host constructs the object, calls open, then get_info    *)
(* and/or decode_initialize, then decode_run and decode_seek, and destroys *)
(* the object.  A call that raises ends the session ("failed").            *)
(***************************************************************************)
Init ==
    /\ stream \in Streams
    /\ pos \in StartPositions(stream)
    /\ m_file = "null"
    /\ phase = "new"
    /\ m_frames = 0         \* not set by construction, not read before open
    /\ m_frame = 0          \* not set by construction, not read before decode_initialize
    /\ m_buffer = [i \in 1..BufferSize |-> Indeterminate]   \* not set by construction
    /\ m_state = 0
    /\ live = {}
    /\ head = [i \in 1..HeadSize |-> 0]
    /\ info = [set |-> FALSE, num |-> 0, den |-> 1]
    /\ sought = FALSE
    /\ op = NoOp

\* open testing the reason after the file was stored and scanned
Open_late(p_reason, f) ==
    /\ phase = "new"
    /\ LET r == decode_length(stream, pos, f)
           w == p_reason = "input_open_info_write"
       IN  /\ m_file' = "set"
           /\ pos' = r.pos
           /\ op' = [NoOp EXCEPT !.name = "open",
                                 !.err = IF r.err = "none" /\ w
                                         THEN "unsupported_format" ELSE r.err,
                                 !.pos_before = pos, !.reads = r.reads,
                                 !.reason = p_reason, !.fault_at = f.at]
           /\ IF r.err = "none" /\ ~w
              THEN m_frames' = r.frames /\ phase' = "opened"
              ELSE m_frames' = m_frames /\ phase' = "failed"
    /\ UNCHANGED <<stream, m_frame, m_buffer, m_state, live, head, info, sought>>

\* input_amr::open
Open(p_reason, f) ==
    /\ phase = "new"
    /\ IF p_reason = "input_open_info_write"
       THEN /\ phase' = "failed"
            /\ op' = [NoOp EXCEPT !.name = "open", !.err = "unsupported_format",
                                  !.pos_before = pos, !.reason = p_reason]
            /\ UNCHANGED <<pos, m_frames, m_file>>
       ELSE LET r == decode_length(stream, pos, f)
            IN  /\ m_file' = "set"
                /\ pos' = r.pos
                /\ op' = [NoOp EXCEPT !.name = "open", !.err = r.err,
                                      !.pos_before = pos, !.reads = r.reads,
                                      !.reason = p_reason, !.fault_at = f.at]
                /\ IF r.err = "none"
                   THEN m_frames' = r.frames /\ phase' = "opened"
                   ELSE m_frames' = m_frames /\ phase' = "failed"
    /\ UNCHANGED <<stream, m_frame, m_buffer, m_state, live, head, info, sought>>

\* input_amr::get_info
GetInfo ==
    /\ phase \in {"opened", "initialized"}
    /\ info' = [set |-> TRUE, num |-> info_length(m_frames).num,
                den |-> info_length(m_frames).den]
    /\ op' = [NoOp EXCEPT !.name = "get_info", !.pos_before = pos,
                          !.frame_before = m_frame]
    /\ UNCHANGED <<stream, pos, m_file, phase, m_frames, m_frame, m_buffer, m_state,
                   live, head, sought>>

\* input_amr::decode_initialize: reopen, Decoder_Interface_init, seek, m_frame = 0
DecodeInitialize(f) ==
    /\ phase \in {"opened", "initialized"}
    /\ m_state < MaxInits
    /\ IF Raises(f)
       THEN /\ op' = [NoOp EXCEPT !.name = "decode_initialize", !.pos_before = pos,
                                  !.frame_before = m_frame, !.err = f.err,
                                  !.fault_at = f.at]
            /\ phase' = "failed"
            /\ UNCHANGED <<pos, m_frame, m_state, live>>
       ELSE /\ LET h == m_state + 1
               IN  /\ m_state' = h
                   /\ live' = live \cup {h}
            /\ IF ~Raises(Tick(f)) /\ file_seek_ok(stream, m_start)
               THEN /\ pos' = m_start
                    /\ m_frame' = 0
                    /\ phase' = "initialized"
                    /\ op' = [NoOp EXCEPT !.name = "decode_initialize",
                                          !.pos_before = pos,
                                          !.frame_before = m_frame]
               ELSE /\ pos' = 0
                    /\ m_frame' = m_frame
                    /\ phase' = "failed"
                    /\ op' = [NoOp EXCEPT !.name = "decode_initialize",
                                          !.pos_before = pos,
                                          !.frame_before = m_frame,
                                          !.fault_at = f.at,
                                          !.err = IF Raises(Tick(f)) THEN Tick(f).err
                                                  ELSE "seek_out_of_range"]
    /\ sought' = FALSE
    /\ UNCHANGED <<stream, m_file, m_frames, m_buffer, head, info>>

\* decode_run moving to the next frame before the reads
DecodeRun_early(f) ==
    /\ phase = "initialized"
    /\ IF exhausted(m_frame, m_frames)
       THEN /\ op' = [NoOp EXCEPT !.name = "decode_run", !.ret = FALSE,
                                  !.pos_before = pos, !.frame_before = m_frame]
            /\ UNCHANGED <<pos, m_buffer, m_frame, phase>>
       ELSE \E g \in Garbage :
            LET r == decode_run_read(stream, pos, m_buffer, g, f)
                ok == r.err = "none"
            IN  /\ pos' = r.pos
                /\ m_buffer' = r.buf
                /\ m_frame' = m_frame + 1
                /\ phase' = IF ok THEN phase ELSE "failed"
                /\ op' = [NoOp EXCEPT !.name = "decode_run", !.ret = ok,
                                      !.err = r.err, !.fault_at = f.at,
                                      !.pos_before = pos, !.frame_before = m_frame,
                                      !.reads = r.reads, !.short = r.short,
                                      !.decoder_calls = IF ok THEN 1 ELSE 0,
                                      !.chunks = IF ok THEN 1 ELSE 0,
                                      !.frame = IF ok
                                                THEN SubSeq(r.buf, 1, 1 + r.read_size)
                                                ELSE <<>>]
    /\ UNCHANGED <<stream, m_file, m_frames, m_state, live, head, info, sought>>

\* decode_run counting the frame in m_frames
DecodeRun_frames(f) ==
    /\ phase = "initialized"
    /\ IF exhausted(m_frame, m_frames)
       THEN /\ op' = [NoOp EXCEPT !.name = "decode_run", !.ret = FALSE,
                                  !.pos_before = pos, !.frame_before = m_frame]
            /\ UNCHANGED <<pos, m_buffer, m_frame, m_frames, phase>>
       ELSE \E g \in Garbage :
            LET r == decode_run_read(stream, pos, m_buffer, g, f)
                ok == r.err = "none"
            IN  /\ pos' = r.pos
                /\ m_buffer' = r.buf
                /\ m_frames' = IF ok THEN m_frames + 1 ELSE m_frames
                /\ m_frame' = m_frame
                /\ phase' = IF ok THEN phase ELSE "failed"
                /\ op' = [NoOp EXCEPT !.name = "decode_run", !.ret = ok,
                                      !.err = r.err, !.fault_at = f.at,
                                      !.pos_before = pos, !.frame_before = m_frame,
                                      !.reads = r.reads, !.short = r.short,
                                      !.decoder_calls = IF ok THEN 1 ELSE 0,
                                      !.chunks = IF ok THEN 1 ELSE 0,
                                      !.frame = IF ok
                                                THEN SubSeq(r.buf, 1, 1 + r.read_size)
                                                ELSE <<>>]
    /\ UNCHANGED <<stream, m_file, m_state, live, head, info, sought>>

\* input_amr::decode_run
DecodeRun(f) ==
    /\ phase = "initialized"
    /\ IF exhausted(m_frame, m_frames)
       THEN /\ op' = [NoOp EXCEPT !.name = "decode_run", !.ret = FALSE,
                                  !.pos_before = pos, !.frame_before = m_frame]
            /\ UNCHANGED <<pos, m_buffer, m_frame, phase>>
       ELSE \E g \in Garbage :
            LET r == decode_run_read(stream, pos, m_buffer, g, f)
                ok == r.err = "none"
            IN  /\ pos' = r.pos
                /\ m_buffer' = r.buf
                /\ m_frame' = IF ok THEN m_frame + 1 ELSE m_frame
                /\ phase' = IF ok THEN phase ELSE "failed"
                /\ op' = [NoOp EXCEPT !.name = "decode_run", !.ret = ok,
                                      !.err = r.err, !.fault_at = f.at,
                                      !.pos_before = pos, !.frame_before = m_frame,
                                      !.reads = r.reads, !.short = r.short,
                                      !.decoder_calls = IF ok THEN 1 ELSE 0,
                                      !.chunks = IF ok THEN 1 ELSE 0,
                                      !.frame = IF ok
                                                THEN SubSeq(r.buf, 1, 1 + r.read_size)
                                                ELSE <<>>]
    /\ UNCHANGED <<stream, m_file, m_frames, m_state, live, head, info, sought>>

\* input_amr::decode_seek
DecodeSeek(p_ms, f) ==
    /\ phase = "initialized"
    /\ LET target == seek_target(p_ms)
           r == decode_seek_scan(stream, pos, m_frame, target, f)
       IN  /\ pos' = r.pos
           /\ m_frame' = r.frame
           /\ phase' = IF r.err = "none" THEN phase ELSE "failed"
           /\ op' = [NoOp EXCEPT !.name = "decode_seek", !.err = r.err,
                                 !.pos_before = pos, !.frame_before = m_frame,
                                 !.target = target, !.reads = r.reads,
                                 !.fault_at = f.at]
    /\ sought' = TRUE
    /\ UNCHANGED <<stream, m_file, m_frames, m_buffer, m_state, live, head, info>>

\* input_amr::retag
Retag ==
    /\ phase \in {"new", "opened", "initialized"}
    /\ phase' = "failed"
    /\ op' = [NoOp EXCEPT !.name = "retag", !.err = "unsupported_format",
                          !.pos_before = pos, !.frame_before = m_frame]
    /\ UNCHANGED <<stream, pos, m_file, m_frames, m_frame, m_buffer, m_state, live,
                   head, info, sought>>

(***************************************************************************)
(* The end of the session: the host drops the object.  input_amr declares  *)
(* no destructor; the implicit one releases m_file and m_data and leaves   *)
(* the decoder behind m_state alone.  The members no longer exist.         *)
(***************************************************************************)
Destroy ==
    /\ phase \in {"new", "opened", "initialized", "failed"}
    /\ phase' = "closed"
    /\ m_file' = "null"
    /\ pos' = 0
    /\ m_frames' = 0
    /\ m_frame' = 0
    /\ m_buffer' = [i \in 1..BufferSize |-> Indeterminate]
    /\ m_state' = 0
    /\ sought' = FALSE
    /\ op' = [NoOp EXCEPT !.name = "destroy"]
    /\ UNCHANGED <<stream, live, head, info>>

Next ==
    \/ \E p_reason \in Reasons : Open(p_reason, NoFault)
    \/ GetInfo
    \/ DecodeInitialize(NoFault)
    \/ DecodeRun(NoFault)
    \/ \E p_ms \in SeekTimes : DecodeSeek(p_ms, NoFault)
    \/ Destroy

Spec == Init /\ [][Next]_vars

(***************************************************************************)
(* Sessions in which calls raise: the file raises exception_aborted or     *)
(* exception_io at some call, and the host asks for a retag.               *)
(***************************************************************************)
FaultKinds == {"aborted", "io"}
Faults == {NoFault} \cup [at : 0..MaxFaultAt, err : FaultKinds]

FaultStreams == { Magic \o pad \o FramesOf(ms, 200) :
                    pad \in Pads,
                    ms \in UNION { [1..n -> Modes] : n \in 0..MaxFaultFrames } }

FaultInit ==
    /\ stream \in FaultStreams
    /\ pos \in StartPositions(stream)
    /\ m_file = "null"
    /\ phase = "new"
    /\ m_frames = 0
    /\ m_frame = 0
    /\ m_buffer = [i \in 1..BufferSize |-> Indeterminate]
    /\ m_state = 0
    /\ live = {}
    /\ head = [i \in 1..HeadSize |-> 0]
    /\ info = [set |-> FALSE, num |-> 0, den |-> 1]
    /\ sought = FALSE
    /\ op = NoOp

FaultNext ==
    \/ \E p_reason \in Reasons, f \in Faults : Open(p_reason, f)
    \/ GetInfo
    \/ \E f \in Faults : DecodeInitialize(f)
    \/ \E f \in Faults : DecodeRun(f)
    \/ \E p_ms \in SeekTimes, f \in Faults : DecodeSeek(p_ms, f)
    \/ Retag
    \/ Destroy

FaultSpec == FaultInit /\ [][FaultNext]_vars

(***************************************************************************)
(* The probe on its own: is_amr applied to a source at any read position.  *)
(***************************************************************************)
ProbeInit ==
    /\ stream \in ProbeStreams
    /\ pos \in 0..Len(stream)
    /\ m_file = "set"
    /\ phase = "probe"
    /\ m_frames = 0
    /\ m_frame = 0
    /\ m_buffer = [i \in 1..BufferSize |-> 0]
    /\ m_state = 0
    /\ live = {}
    /\ head = [i \in 1..HeadSize |-> 0]
    /\ info = [set |-> FALSE, num |-> 0, den |-> 1]
    /\ sought = FALSE
    /\ op = NoOp

IsAmr ==
    /\ phase = "probe"
    /\ LET r == is_amr(stream, pos, head)
       IN  /\ pos' = r.pos
           /\ head' = r.head
           /\ op' = [NoOp EXCEPT !.name = "is_amr", !.ret = r.ret, !.pos_before = pos]
    /\ UNCHANGED <<stream, m_file, phase, m_frames, m_frame, m_buffer, m_state, live,
                   info, sought>>

ProbeNext == IsAmr

ProbeSpec == ProbeInit /\ [][ProbeNext]_vars

(***************************************************************************)
(* The two scans statement by statement: the loop of decode_length and the *)
(* loop of decode_seek, one step a call of the file.  phase is the place   *)
(* in the code, op.name the function, op.target the target of the seek,    *)
(* m_frames the local `frames' of decode_length (what open stores in       *)
(* m_frames), m_frame the counter of decode_seek.  The thread that runs    *)
(* the function keeps running: a step that can be taken is taken.          *)
(***************************************************************************)
ScanBytes == {4, 72, 248}
ScanTails == UNION { [1..n -> ScanBytes] : n \in 0..MaxScanLen }
ScanStreams == Streams \cup { Magic \o pad \o t : pad \in Pads, t \in ScanTails }
ScanNames == {"decode_length", "decode_seek"}

ScanInit ==
    /\ stream \in ScanStreams
    /\ pos \in StartPositions(stream)
    /\ m_file = "set"
    /\ phase = "scan_start"
    /\ m_frames = 0
    /\ m_frame = 0
    /\ m_buffer = [i \in 1..BufferSize |-> Indeterminate]
    /\ m_state = 0
    /\ live = {}
    /\ head = [i \in 1..HeadSize |-> 0]
    /\ info = [set |-> FALSE, num |-> 0, den |-> 1]
    /\ sought = FALSE
    /\ \E n \in ScanNames, t \in 0..MaxTarget :
         op = [NoOp EXCEPT !.name = n, !.pos_before = pos,
                           !.target = IF n = "decode_seek" THEN t ELSE 0]

\* m_file->seek(m_start,p_abort); frames = 0 / m_frame = 0
ScanStart ==
    /\ phase = "scan_start"
    /\ IF file_seek_ok(stream, m_start)
       THEN /\ pos' = m_start
            /\ phase' = "scan_read"
            /\ op' = op
       ELSE /\ pos' = pos
            /\ phase' = "failed"
            /\ op' = [op EXCEPT !.err = "seek_out_of_range"]
    /\ m_frame' = 0
    /\ m_frames' = 0
    /\ UNCHANGED <<stream, m_file, m_buffer, m_state, live, head, info, sought>>

\* the loop condition: m_file->read(&id,sizeof(char),p_abort), in decode_seek
\* followed by && m_frame < target
ScanRead ==
    /\ phase = "scan_read"
    /\ LET n == file_read(stream, pos, 1)
       IN  /\ pos' = pos + n
           /\ op' = [op EXCEPT !.reads = IF n = 1 THEN Append(@, pos) ELSE @]
           /\ phase' = IF n = 0
                       THEN (IF op.name = "decode_length" THEN "scan_rewind"
                                                          ELSE "scanned")
                       ELSE IF op.name = "decode_seek" /\ ~(m_frame < op.target)
                       THEN "scanned"
                       ELSE "scan_skip"
    /\ UNCHANGED <<stream, m_file, m_frames, m_frame, m_buffer, m_state, live, head,
                   info, sought>>

\* the loop body leaving a frame without payload where it is: the position
\* goes back to its mode byte and the frame is not counted
ScanSkip_stay ==
    /\ phase = "scan_skip"
    /\ LET id == to_char(stream[pos])
           size == block_size(id)
       IN  IF size = 0
           THEN /\ pos' = pos - 1
                /\ phase' = "scan_read"
                /\ op' = [op EXCEPT !.reads = SubSeq(@, 1, Len(@) - 1)]
                /\ UNCHANGED <<m_frames, m_frame>>
           ELSE IF file_seek_ok(stream, pos + size)
           THEN /\ pos' = pos + size
                /\ phase' = "scan_read"
                /\ op' = op
                /\ IF op.name = "decode_length"
                   THEN m_frames' = m_frames + 1 /\ m_frame' = m_frame
                   ELSE m_frame' = m_frame + 1 /\ m_frames' = m_frames
           ELSE /\ phase' = "failed"
                /\ op' = [op EXCEPT !.err = "seek_out_of_range"]
                /\ UNCHANGED <<pos, m_frames, m_frame>>
    /\ UNCHANGED <<stream, m_file, m_buffer, m_state, live, head, info, sought>>

\* the loop body: size = m_block_size[(id >> 3) & 0x000F];
\* m_file->seek_ex(size, file::seek_from_current, p_abort); ++frames / ++m_frame
ScanSkip ==
    /\ phase = "scan_skip"
    /\ LET id == to_char(stream[pos])
           size == block_size(id)
       IN  IF file_seek_ok(stream, pos + size)
           THEN /\ pos' = pos + size
                /\ phase' = "scan_read"
                /\ op' = op
                /\ IF op.name = "decode_length"
                   THEN m_frames' = m_frames + 1 /\ m_frame' = m_frame
                   ELSE m_frame' = m_frame + 1 /\ m_frames' = m_frames
           ELSE /\ phase' = "failed"
                /\ op' = [op EXCEPT !.err = "seek_out_of_range"]
                /\ UNCHANGED <<pos, m_frames, m_frame>>
    /\ UNCHANGED <<stream, m_file, m_buffer, m_state, live, head, info, sought>>

\* decode_length after the loop: m_file->seek(0,p_abort); return frames;
ScanRewind ==
    /\ phase = "scan_rewind"
    /\ pos' = 0
    /\ phase' = "scanned"
    /\ UNCHANGED <<stream, m_file, m_frames, m_frame, m_buffer, m_state, live, head,
                   info, sought, op>>

ScanNext ==
    \/ ScanStart
    \/ ScanRead
    \/ ScanSkip
    \/ ScanRewind

ScanSpec == ScanInit /\ [][ScanNext]_vars /\ WF_vars(ScanNext)

(***************************************************************************)
(* Sessions that decode a frame of every mode byte: the byte at offset     *)
(* m_start, where decode_initialize leaves the position, takes every value *)
(* a byte has; its payload of the table length and one more frame follow.  *)
(***************************************************************************)
Bytes == 0..255
BufferStreams == { Magic \o <<72, b>> \o [i \in 1..block_size(b) |-> 200] \o <<72>> :
                     b \in Bytes }

BufferInit ==
    /\ stream \in BufferStreams
    /\ pos \in StartPositions(stream)
    /\ m_file = "null"
    /\ phase = "new"
    /\ m_frames = 0
    /\ m_frame = 0
    /\ m_buffer = [i \in 1..BufferSize |-> Indeterminate]
    /\ m_state = 0
    /\ live = {}
    /\ head = [i \in 1..HeadSize |-> 0]
    /\ info = [set |-> FALSE, num |-> 0, den |-> 1]
    /\ sought = FALSE
    /\ op = NoOp

BufferNext ==
    \/ Open("input_open_decode", NoFault)
    \/ DecodeInitialize(NoFault)
    \/ DecodeRun(NoFault)

BufferSpec == BufferInit /\ [][BufferNext]_vars

(***************************************************************************)
(* The layout the format lays down: the 6-byte magic at offset 0, then     *)
(* frames back to back from offset 6.                                      *)
(***************************************************************************)
HeaderLen == Len(Magic)
HasMagic(s) == Len(s) >= HeaderLen /\ SubSeq(s, 1, HeaderLen) = Magic

\* the number of frames of modes 0..8 that fill s from offset p to its end
\* exactly, -1 when s is not such a sequence of frames
RECURSIVE ValidFramesFrom(_, _)
ValidFramesFrom(s, p) ==
    IF p = Len(s) THEN 0
    ELSE LET m == (s[p + 1] \div 8) % 16
             q == p + 1 + m_block_size[m + 1]
         IN  IF m <= 8 /\ q <= Len(s)
             THEN LET k == ValidFramesFrom(s, q)
                  IN  IF k < 0 THEN -1 ELSE k + 1
             ELSE -1

\* K when s is the magic followed by K valid frames, else -1
LaidDown(s) == IF HasMagic(s) THEN ValidFramesFrom(s, HeaderLen) ELSE -1

\* the offset of the mode byte of frame number t of the frames from offset p
RECURSIVE FrameOffsetFrom(_, _, _)
FrameOffsetFrom(s, p, t) ==
    IF t = 0 \/ p >= Len(s) THEN p
    ELSE FrameOffsetFrom(s, p + 1 + m_block_size[((s[p + 1] \div 8) % 16) + 1], t - 1)

FrameOffset(s, t) == FrameOffsetFrom(s, HeaderLen, t)

Reserved(b) == ((b \div 8) % 16) \in 9..15

(***************************************************************************)
(* C1: is_amr returns true if and only if the source holds at least 6      *)
(* bytes and its first 6 bytes are the magic 23 21 41 4D 52 0A.            *)
(* (ProbeSpec; the call starts at offset 0.)                               *)
(***************************************************************************)
C1_ProbeIffMagic ==
    (op.name = "is_amr" /\ op.pos_before = 0) => (op.ret <=> HasMagic(stream))

(***************************************************************************)
(* C2 as stated: is_amr leaves the read position as it was before the      *)
(* call, for every starting position.  (ProbeSpec)                         *)
(***************************************************************************)
C2_ProbeKeepsPosition ==
    op.name = "is_amr" => pos = op.pos_before

(***************************************************************************)
(* C2 amended: is_amr leaves the read position at offset 0, whatever the   *)
(* position before the call and whatever it returns.  (ProbeSpec)          *)
(***************************************************************************)
C2_ProbeRewinds ==
    op.name = "is_amr" => pos = 0

C2_Witness ==
    op.name = "is_amr" /\ op.pos_before > 0 /\ op.ret = TRUE /\ pos = 0

(***************************************************************************)
(* C3: a stream whose first 6 bytes are not the magic is rejected by open: *)
(* no session on it is ever opened or initialized.                         *)
(***************************************************************************)
C3_NoSessionWithoutMagic ==
    phase \in {"opened", "initialized"} => HasMagic(stream)

(***************************************************************************)
(* C4: on the magic followed at offset 6 by K frames of modes 0..8, the    *)
(* count scan of open completes and yields exactly K.                      *)
(***************************************************************************)
C4_CountIsK ==
    (op.name = "open" /\ op.err # "unsupported_format" /\ LaidDown(stream) >= 0)
        => (op.err = "none" /\ m_frames = LaidDown(stream))

(***************************************************************************)
(* C5: on a stream that is the 6-byte header only, the count scan of open  *)
(* completes without an error and yields 0.                                *)
(***************************************************************************)
C5_HeaderOnlyCountsZero ==
    (op.name = "open" /\ op.err # "unsupported_format" /\ stream = Magic)
        => (op.err = "none" /\ m_frames = 0)

(***************************************************************************)
(* C6: decode_seek completes and sets m_frame to min(target, frameCount),  *)
(* frameCount being what decode_length returns on the same stream.         *)
(***************************************************************************)
C6_SeekClamps ==
    op.name = "decode_seek"
        => /\ op.err = "none"
           /\ decode_length(stream, 0, NoFault).err = "none"
           /\ m_frame = Min(op.target, decode_length(stream, 0, NoFault).frames)

C6_Witness ==
    /\ op.name = "decode_seek"
    /\ m_frames >= 2
    /\ op.target > m_frames
    /\ m_frame = m_frames

(***************************************************************************)
(* C7: after decode_seek to a target below the frame count, the read       *)
(* position is the offset of the mode byte of frame number target: the     *)
(* header length plus the lengths of the frames before it.                 *)
(***************************************************************************)
C7_SeekLandsOnModeByte ==
    (op.name = "decode_seek" /\ op.err = "none" /\ op.target < m_frames)
        => pos = FrameOffset(stream, op.target)

(***************************************************************************)
(* C8: from decode_initialize on a stream of K laid down frames, the i-th  *)
(* decode_run (i <= K) returns true and reads exactly frame i, and a       *)
(* decode_run after K frames returns false and reads nothing.              *)
(***************************************************************************)
C8_DecodeSequencing ==
    (phase = "initialized" /\ ~sought /\ op.name = "decode_run"
                           /\ LaidDown(stream) >= 0)
        => /\ op.frame_before < LaidDown(stream)
                => /\ op.ret = TRUE
                   /\ op.pos_before = FrameOffset(stream, op.frame_before)
                   /\ pos = FrameOffset(stream, op.frame_before + 1)
           /\ op.frame_before >= LaidDown(stream)
                => /\ op.ret = FALSE
                   /\ pos = op.pos_before

(***************************************************************************)
(* C9: the length get_info reports is frameCount * 160 / 8000 seconds,     *)
(* 20 ms a frame, frameCount being the count of the scan at open.          *)
(***************************************************************************)
C9_Duration ==
    (info.set /\ phase # "closed")
        => /\ info.den > 0
           /\ info.num * 8000 = decode_length(stream, 0, NoFault).frames * 160 * info.den
           /\ info.num * 1000 = m_frames * 20 * info.den

C9_Witness ==
    info.set /\ m_frames >= 3 /\ op.name = "get_info"

(***************************************************************************)
(* C10: in the count scan and in the seek scan a mode byte of mode 9..15   *)
(* is one frame without payload: the next mode byte is read at the next    *)
(* offset, the frame is counted, and the scan does not end there unless    *)
(* the stream does (or, seeking, the target is reached).                   *)
(***************************************************************************)
C10_ReservedModeIsOneFrame ==
    op.name \in {"open", "decode_seek"}
        => \A i \in 1..Len(op.reads) :
             Reserved(stream[op.reads[i] + 1])
               => /\ i < Len(op.reads) => op.reads[i + 1] = op.reads[i] + 1
                  /\ i = Len(op.reads) =>
                        /\ op.err = "none"
                        /\ \/ op.reads[i] + 1 = Len(stream)
                           \/ op.name = "decode_seek" /\ op.target = i - 1
                  /\ (op.err = "none" /\ op.name = "open")
                        => m_frames = Len(op.reads)
                  /\ (op.err = "none" /\ op.name = "decode_seek")
                        => \/ m_frame = Len(op.reads)
                           \/ m_frame = op.target /\ Len(op.reads) = op.target + 1

C10_Witness ==
    /\ op.name = "open"
    /\ op.err = "none"
    /\ \E i \in 1..(Len(op.reads) - 1) :
          /\ Reserved(stream[op.reads[i] + 1])
          /\ ~Reserved(stream[op.reads[i + 1] + 1])

(***************************************************************************)
(* C11: a write or retag request fails with an unsupported-operation       *)
(* error: open for writing fails before the file is stored, opened or      *)
(* scanned, and retag fails in every state of the session.  (FaultSpec)    *)
(***************************************************************************)
C11_WriteAndRetagFail ==
    /\ (op.name = "open" /\ op.reason = "input_open_info_write")
          => /\ op.err = "unsupported_format"
             /\ phase = "failed"
             /\ m_file = "null"
             /\ pos = op.pos_before
             /\ op.reads = <<>>
    /\ op.name = "retag"
          => /\ op.err = "unsupported_format"
             /\ phase = "failed"
             /\ pos = op.pos_before
             /\ m_frame = op.frame_before

C11_Witness ==
    /\ op.name = "open"
    /\ op.reason = "input_open_info_write"
    /\ op.pos_before > 0
    /\ m_file = "null"

(***************************************************************************)
(* C12: a session that has ended holds no live decoder handle: every       *)
(* handle decode_initialize created has been released.                     *)
(***************************************************************************)
C12_NoHandleAfterEnd ==
    phase = "closed" => live = {}

(***************************************************************************)
(* C13: when a read of decode_run fails or is short while m_frame is       *)
(* below m_frames, decode_run ends with an error: it does not return true, *)
(* emits no block and does not increment m_frame.  (FaultSpec)             *)
(***************************************************************************)
C13_ShortReadIsFatal ==
    (op.name = "decode_run" /\ op.frame_before < m_frames
                            /\ (op.short \/ op.err = "io"))
        => /\ op.err # "none"
           /\ op.ret = FALSE
           /\ op.chunks = 0
           /\ m_frame = op.frame_before

(***************************************************************************)
(* C14: when a file call of the count scan, the seek scan or decode_run    *)
(* sees the abort signal, the call ends there with the cancellation        *)
(* failure: no file call follows, open sets no frame count, decode_run     *)
(* does not call the decoder, emits no block and does not increment        *)
(* m_frame.  (FaultSpec)                                                   *)
(***************************************************************************)
C14_AbortEndsCall ==
    (op.err = "aborted" /\ phase # "closed")
        => /\ phase = "failed"
           /\ op.ret = FALSE
           /\ op.decoder_calls = 0
           /\ op.chunks = 0
           /\ op.name = "open" => (m_frames = 0 /\ 2 * Len(op.reads) <= op.fault_at)
           /\ op.name = "decode_seek" => 2 * Len(op.reads) <= op.fault_at
           /\ op.name = "decode_run"
                => /\ m_frame = op.frame_before
                   /\ pos <= op.pos_before + op.fault_at
                   /\ op.frame = <<>>

C14_Witness ==
    /\ op.name = "decode_run"
    /\ op.err = "aborted"
    /\ op.fault_at = 1
    /\ pos = op.pos_before + 1

(***************************************************************************)
(* C15: decode_run called with m_frame >= m_frames returns false and       *)
(* leaves the read position, the buffer, the decoder and m_frame as they   *)
(* were; this state is left only by decode_initialize or decode_seek.      *)
(***************************************************************************)
C15_ExhaustedStep ==
    (phase = "initialized" /\ m_frame >= m_frames)
        => /\ op'.name = "decode_run"
                => /\ op'.ret = FALSE
                   /\ op'.reads = <<>>
                   /\ op'.decoder_calls = 0
                   /\ pos' = pos
                   /\ m_buffer' = m_buffer
                   /\ m_state' = m_state
                   /\ m_frame' = m_frame
           /\ (phase' = "initialized" /\ m_frame' < m_frames')
                => op'.name \in {"decode_initialize", "decode_seek"}

C15_ExhaustedRun == [][C15_ExhaustedStep]_vars

C15_Witness ==
    /\ phase = "initialized"
    /\ op.name = "decode_run"
    /\ op.ret = FALSE
    /\ m_frames > 0
    /\ m_frame = m_frames

(***************************************************************************)
(* C16: a decode_run with m_frame < m_frames advances the source by        *)
(* 1 + m_block_size[(mode byte >> 3) & 0xF] bytes, calls the decoder once  *)
(* with the mode byte and that payload, emits one block and increments     *)
(* m_frame by 1.                                                           *)
(***************************************************************************)
C16_RunConsumesOneFrame ==
    (op.name = "decode_run" /\ op.frame_before < m_frames /\ op.err = "none")
        => /\ op.ret = TRUE
           /\ op.pos_before < Len(stream)
           /\ pos = op.pos_before + 1
                      + m_block_size[((stream[op.pos_before + 1] \div 8) % 16) + 1]
           /\ pos <= Len(stream)
           /\ op.frame = SubSeq(stream, op.pos_before + 1, pos)
           /\ op.decoder_calls = 1
           /\ op.chunks = 1
           /\ m_frame = op.frame_before + 1

(***************************************************************************)
(* C17: after decode_initialize the read position is the first byte after  *)
(* the 6-byte header, offset 6, and m_frame is 0.                          *)
(***************************************************************************)
C17_InitializeAtFirstFrame ==
    (op.name = "decode_initialize" /\ op.err = "none")
        => (pos = HeaderLen /\ m_frame = 0)

(***************************************************************************)
(* C18: in every state after decode_initialize, whatever decode_run,       *)
(* decode_seek and decode_initialize calls followed,                       *)
(* 0 <= m_frame <= m_frames.                                               *)
(***************************************************************************)
C18_FrameWithinTotal ==
    phase = "initialized" => (0 <= m_frame /\ m_frame <= m_frames)

C18_Witness ==
    /\ phase = "initialized"
    /\ sought
    /\ op.name = "decode_run"
    /\ op.ret = TRUE
    /\ m_frame = m_frames

(***************************************************************************)
(* C19: m_frames is written by open only: no other call of the session     *)
(* changes it.                                                             *)
(***************************************************************************)
C19_TotalStep ==
    (m_frames' # m_frames /\ phase' # "closed") => (phase = "new" /\ op'.name = "open")

C19_TotalWrittenByOpen == [][C19_TotalStep]_vars

C19_Witness ==
    /\ op.name = "decode_seek"
    /\ info.set
    /\ m_frames > 0
    /\ m_frame < m_frames

(***************************************************************************)
(* C20: after the count scan of open has completed, the read position is   *)
(* offset 0, whatever the stream and the position before.                  *)
(***************************************************************************)
C20_ScanRewinds ==
    (op.name = "open" /\ op.err = "none") => pos = 0

C20_Witness ==
    /\ op.name = "open"
    /\ op.err = "none"
    /\ op.pos_before > 0
    /\ Len(op.reads) > 0
    /\ pos = 0

(***************************************************************************)
(* C21: on every finite stream the count scan (decode_length) and the seek *)
(* scan (decode_seek) terminate: every pass of the loop consumes at least  *)
(* the mode byte, also for the modes 9..15 without payload, so the scan    *)
(* comes to its end, and it ends with what the function computes as a      *)
(* whole.  (ScanSpec)                                                      *)
(***************************************************************************)
C21_ScanEnded == phase \in {"scanned", "failed"}

C21_ScanResult ==
    IF op.name = "decode_length"
    THEN LET r == decode_length(stream, op.pos_before, NoFault)
         IN  /\ op.err = r.err
             /\ op.reads = r.reads
             /\ pos = r.pos
             /\ m_frames = r.frames
    ELSE LET r == decode_seek_scan(stream, op.pos_before, 0, op.target, NoFault)
         IN  /\ op.err = r.err
             /\ op.reads = r.reads
             /\ pos = r.pos
             /\ m_frame = r.frame

C21_ScansTerminate == <>[]C21_ScanEnded /\ [](C21_ScanEnded => C21_ScanResult)

C21_Witness ==
    /\ phase = "scanned"
    /\ Len(op.reads) >= 3
    /\ \E i \in 1..Len(op.reads) :
         /\ Reserved(stream[op.reads[i] + 1])
         /\ i < Len(op.reads)
         /\ op.reads[i + 1] = op.reads[i] + 1

(***************************************************************************)
(* C22: on a stream of laid down frames, after any sequence of             *)
(* decode_initialize, decode_run returning true and decode_seek, whenever  *)
(* m_frame < m_frames the read position is the offset of the mode byte of  *)
(* frame number m_frame, so the byte decode_run reads as the mode byte is  *)
(* the mode byte of that frame.                                            *)
(***************************************************************************)
C22_FrameAlignment ==
    (phase = "initialized" /\ LaidDown(stream) >= 0 /\ m_frame < m_frames)
        => pos = FrameOffset(stream, m_frame)

(***************************************************************************)
(* C23: for every value 0..255 of the mode byte, decode_run writes at most *)
(* 32 bytes into the 32 bytes of m_buffer: the index                       *)
(* (byte >> 3) & 0xF is within 0..15, also for the byte held in a signed   *)
(* char, and 1 + m_block_size[index] <= 32.  (BufferSpec)                  *)
(***************************************************************************)
C23_BufferBound ==
    (op.name = "decode_run" /\ Len(op.reads) > 0)
        => LET b == stream[op.reads[1] + 1]
           IN  /\ mode_index(b) \in 0..15
               /\ mode_index(to_char(b)) \in 0..15
               /\ mode_index(to_char(b)) = mode_index(b)
               /\ 1 + m_block_size[mode_index(b) + 1] <= BufferSize
               /\ pos - op.pos_before <= BufferSize
               /\ Len(op.frame) <= BufferSize

C23_Witness ==
    /\ op.name = "decode_run"
    /\ op.ret = TRUE
    /\ op.reads = <<m_start>>
    /\ stream[m_start + 1] = 184
    /\ m_buffer[1] = 184
    /\ pos - op.pos_before = BufferSize
    /\ Len(op.frame) = BufferSize
    /\ m_buffer[BufferSize] = 200

====
